---- MODULE Spec2Model ----
(***************************************************************************)
(* Resiliency scoring engine of krkn: the sample verdict extractor         *)
(* (slo_passed), the SLO batch evaluator (evaluate_slos), the definitions  *)
(* loader (Resiliency.__init__ / _normalise_alerts), the Resiliency        *)
(* object's scenario/finalize/report life cycle and compute_resiliency.    *)
(***************************************************************************)
EXTENDS Integers, Sequences, FiniteSets, TLC

VARIABLES
    \* --- slo_passed applied to one query result (SpecVerdict)
    prometheus_result,  \* the argument of slo_passed
    verdict,            \* None before the call, [value |-> BOOLEAN] after it
    \* --- evaluate_slos applied to one SLO list (SpecEval)
    slo_list,           \* the argument slo_list
    prom_responses,     \* what the backend answers to the i-th query of a call
    eval_out,           \* None before the call, [results, queried] after it
    \* --- the definitions sources and Resiliency.__init__ (SpecLoad)
    env_yaml,           \* os.getenv(KRKN_ALERTS_YAML_CONTENT): None or a text
    alerts_file,        \* the file at alerts_yaml_path: None (no file) or a text
    loaded,             \* None before __init__, its outcome after it
    \* --- a constructed Resiliency object (Spec)
    _slos,              \* self._slos
    scenario_reports,   \* self.scenario_reports
    summary,            \* self.summary
    detailed_report,    \* self.detailed_report
    last,               \* the last call on the object and how it ended
    \* --- compute_resiliency (SpecCompute)
    chaos_telemetry,    \* the telemetry object handed to compute_resiliency
    compute_out,        \* None before the call, how the call ended after it
    _with_resiliency_patch  \* hasattr(ChaosRunTelemetry, "_with_resiliency_patch")

VerdictVars == <<prometheus_result, verdict>>
EvalVars == <<slo_list, prom_responses, eval_out>>
LoadVars == <<env_yaml, alerts_file, loaded>>
ObjVars == <<_slos, scenario_reports, summary, detailed_report, last>>
ComputeVars == <<chaos_telemetry, compute_out, _with_resiliency_patch>>

vars == <<VerdictVars, EvalVars, LoadVars, ObjVars, ComputeVars>>

\* Python's None, and a value that is not None.
None == [tag |-> "None"]

\* The parts of the state a specification does not use stay as they are here.
VerdictIdle == prometheus_result = <<>> /\ verdict = None
EvalIdle == slo_list = <<>> /\ prom_responses = <<>> /\ eval_out = None
LoadIdle == env_yaml = None /\ alerts_file = None /\ loaded = None
ObjIdle ==
    /\ _slos = <<>> /\ scenario_reports = <<>>
    /\ summary = None /\ detailed_report = None /\ last = None
ComputeIdle ==
    chaos_telemetry = None /\ compute_out = None /\ _with_resiliency_patch = FALSE

(***************************************************************************)
(* Bounds of the model.                                                    *)
(***************************************************************************)
\* series in one query result
MaxSeries == 2
\* samples in one query result, all series together
MaxSamples == 3
\* SLO definitions in one list given to evaluate_slos
MaxSlos == 2
\* entries in one definitions list given to the loader
MaxAlerts == 2
\* scenario reports added to one Resiliency object
MaxScenarios == 2

(***************************************************************************)
(* Sample values and float().                                              *)
(***************************************************************************)
\* Sample values as the backend delivers them (strings).
Vals == {"0", "0.5", "-1", "NaN", "abc"}

\* float(val): ok is FALSE when float() raises ValueError/TypeError; a parsed
\* number is kept in tenths, nan marks the IEEE not-a-number.
FloatOf(val) ==
    CASE val = "0"   -> [ok |-> TRUE, nan |-> FALSE, tenths |-> 0]
      [] val = "0.5" -> [ok |-> TRUE, nan |-> FALSE, tenths |-> 5]
      [] val = "1"   -> [ok |-> TRUE, nan |-> FALSE, tenths |-> 10]
      [] val = "-1"  -> [ok |-> TRUE, nan |-> FALSE, tenths |-> -10]
      [] val = "NaN" -> [ok |-> TRUE, nan |-> TRUE, tenths |-> 0]
      [] OTHER       -> [ok |-> FALSE, nan |-> FALSE, tenths |-> 0]

\* the comparison written float(val) >= 0
PositiveSample_ge(val) ==
    LET f == FloatOf(val) IN f.ok /\ ~f.nan /\ f.tenths >= 0

\* float(val) > 0, with except (TypeError, ValueError): continue
PositiveSample(val) ==
    LET f == FloatOf(val) IN f.ok /\ ~f.nan /\ f.tenths > 0

\* float(series["value"][1]) == 0, with except (TypeError, ValueError): return False
InstantIsZero(val) ==
    LET f == FloatOf(val) IN f.ok /\ ~f.nan /\ f.tenths = 0

(***************************************************************************)
(* slo_passed                                                              *)
(***************************************************************************)
\* for _ts, val in series["values"]: some sample from position i on is > 0
RECURSIVE ScanValues(_, _)
ScanValues(values, i) ==
    IF i > Len(values) THEN FALSE
    ELSE IF PositiveSample(values[i][2]) THEN TRUE
    ELSE ScanValues(values, i + 1)

\* for series in prometheus_result, from series k on
RECURSIVE ScanSeries(_, _)
ScanSeries(result, k) ==
    IF k > Len(result) THEN TRUE
    ELSE LET series == result[k] IN
         IF "values" \in DOMAIN series
         THEN IF ScanValues(series.values, 1) THEN FALSE
              ELSE ScanSeries(result, k + 1)
         ELSE IF "value" \in DOMAIN series
         THEN InstantIsZero(series.value[2])
         ELSE ScanSeries(result, k + 1)

slo_passed(result) ==
    IF result = <<>> THEN FALSE ELSE ScanSeries(result, 1)

(***************************************************************************)
(* Query results the verdict extractor is applied to.                      *)
(***************************************************************************)
\* the samples (timestamp, value) of a range series; the timestamp is the
\* sample's position
SamplesOfLen(n) ==
    { [i \in 1..n |-> <<i, f[i]>>] : f \in [1..n -> Vals] }

\* a series that takes n samples: range-shaped, instant-shaped (one sample),
\* or a series that has neither key
SeriesOfSize(n) ==
    { [metric |-> "m", values |-> s] : s \in SamplesOfLen(n) }
    \cup (IF n = 1 THEN { [metric |-> "m", value |-> <<1, v>>] : v \in Vals } ELSE {})
    \cup (IF n = 0 THEN { [metric |-> "m"] } ELSE {})

\* the results of at most k series and at most n samples
RECURSIVE ResultsUpTo(_, _)
ResultsUpTo(k, n) ==
    IF k = 0 THEN { <<>> }
    ELSE { <<>> } \cup
         UNION { { <<s>> \o r : s \in SeriesOfSize(m), r \in ResultsUpTo(k - 1, n - m) }
                 : m \in 0..n }

IsRange(result) ==
    /\ result # <<>>
    /\ \A k \in 1..Len(result) : "values" \in DOMAIN result[k]

(***************************************************************************)
(* evaluate_slos                                                           *)
(***************************************************************************)
\* What the backend does with one query: raise, or return a result.
Raises == [raises |-> TRUE, data |-> <<>>]
Returns(result) == [raises |-> FALSE, data |-> result]

\* results[name] = v
Put(results, name, v) ==
    [n \in DOMAIN results \cup {name} |-> IF n = name THEN v ELSE results[n]]

EmptyMap == [n \in {} |-> FALSE]

\* the verdict evaluate_slos stores for one SLO, given the backend's answer:
\* results[name] = slo_passed(response), or False in the except branch
verdict_of(response) ==
    IF response.raises THEN FALSE ELSE slo_passed(response.data)

\* for slo in slo_list, from position i on; acc is [results, queried]
RECURSIVE eval_loop(_, _, _, _)
eval_loop(slos, responses, i, acc) ==
    IF i > Len(slos) THEN acc
    ELSE eval_loop(slos, responses, i + 1,
                   [results |-> Put(acc.results, slos[i].name, verdict_of(responses[i])),
                    queried |-> Append(acc.queried, slos[i].expr)])

\* evaluate_slos with the try around the whole loop: the first failing query
\* is recorded as False and ends the batch
RECURSIVE eval_loop_abort(_, _, _, _)
eval_loop_abort(slos, responses, i, acc) ==
    IF i > Len(slos) THEN acc
    ELSE IF responses[i].raises
    THEN [results |-> Put(acc.results, slos[i].name, FALSE),
          queried |-> Append(acc.queried, slos[i].expr)]
    ELSE eval_loop_abort(slos, responses, i + 1,
                   [results |-> Put(acc.results, slos[i].name, verdict_of(responses[i])),
                    queried |-> Append(acc.queried, slos[i].expr)])

evaluate_slos_abort(slos, responses) ==
    eval_loop_abort(slos, responses, 1, [results |-> EmptyMap, queried |-> <<>>])

evaluate_slos(slos, responses) ==
    eval_loop(slos, responses, 1, [results |-> EmptyMap, queried |-> <<>>])

(***************************************************************************)
(* SpecVerdict: slo_passed applied to every query result within the bounds *)
(***************************************************************************)
InitVerdict ==
    /\ prometheus_result \in ResultsUpTo(MaxSeries, MaxSamples)
    /\ verdict = None
    /\ EvalIdle /\ LoadIdle /\ ObjIdle /\ ComputeIdle

CallSloPassed ==
    /\ verdict = None
    /\ verdict' = [value |-> slo_passed(prometheus_result)]
    /\ UNCHANGED <<prometheus_result, EvalVars, LoadVars, ObjVars, ComputeVars>>

NextVerdict == CallSloPassed

SpecVerdict == InitVerdict /\ [][NextVerdict]_vars

(***************************************************************************)
(* SpecEval: evaluate_slos applied to every SLO list and backend behaviour *)
(* within the bounds                                                       *)
(***************************************************************************)
SloNames == {"a", "b"}
Exprs == {"e1", "e2"}

\* SLO definitions as _normalise_alerts builds them
SloDefs == [name : SloNames, expr : Exprs, severity : {"critical"}]

SloLists == UNION { [1..n -> SloDefs] : n \in 0..MaxSlos }

\* a range result with no positive sample, one with a positive sample, an
\* instant result of zero
RangePass == << [metric |-> "m", values |-> << <<1, "0">>, <<2, "abc">> >>] >>
RangeFail == << [metric |-> "m", values |-> << <<1, "0">>, <<2, "0.5">> >>] >>
InstantZero == << [metric |-> "m", value |-> <<1, "0">>] >>

EvalResponses ==
    { Raises, Returns(<<>>), Returns(RangePass), Returns(RangeFail), Returns(InstantZero) }

InitEval ==
    /\ slo_list \in SloLists
    /\ prom_responses \in [1..Len(slo_list) -> EvalResponses]
    /\ eval_out = None
    /\ VerdictIdle /\ LoadIdle /\ ObjIdle /\ ComputeIdle

CallEvaluateSlos ==
    /\ eval_out = None
    /\ eval_out' = evaluate_slos(slo_list, prom_responses)
    /\ UNCHANGED <<slo_list, prom_responses, VerdictVars, LoadVars, ObjVars, ComputeVars>>

NextEval == CallEvaluateSlos

SpecEval == InitEval /\ [][NextEval]_vars

(***************************************************************************)
(* Properties of slo_passed (SpecVerdict)                                  *)
(***************************************************************************)
\* some sample of some series parses to a number strictly greater than zero
HasPositiveSample(result) ==
    \E k \in 1..Len(result) :
        /\ "values" \in DOMAIN result[k]
        /\ \E i \in 1..Len(result[k].values) :
              LET f == FloatOf(result[k].values[i][2])
              IN  f.ok /\ ~f.nan /\ f.tenths > 0

\* every sample of every series is unparsable or a number <= 0
AllSamplesNonPositive(result) ==
    \A k \in 1..Len(result) :
        \A i \in 1..Len(result[k].values) :
            LET f == FloatOf(result[k].values[i][2])
            IN  ~f.ok \/ (~f.nan /\ f.tenths <= 0)

\* C5: for every non-empty range-shaped result, slo_passed yields fail (False)
\* exactly when some sample, at any position of any series, parses to a
\* number > 0; in particular it yields pass (True) when every sample is <= 0
\* or unparsable.
C5_RangeVerdict ==
    (verdict # None /\ IsRange(prometheus_result)) =>
        /\ (HasPositiveSample(prometheus_result) => verdict.value = FALSE)
        /\ (AllSamplesNonPositive(prometheus_result) => verdict.value = TRUE)
        /\ (verdict.value = FALSE => HasPositiveSample(prometheus_result))

\* C5 witness: a range result of two series whose only positive sample is the
\* last sample of the last series, after an unparsable one, yields fail.
C5_Witness ==
    /\ verdict # None
    /\ IsRange(prometheus_result)
    /\ Len(prometheus_result) = 2
    /\ Len(prometheus_result[2].values) = 2
    /\ prometheus_result[1].values = << <<1, "-1">> >>
    /\ prometheus_result[2].values = << <<1, "abc">>, <<2, "0.5">> >>
    /\ verdict.value = FALSE

(***************************************************************************)
(* Properties of evaluate_slos (SpecEval)                                  *)
(***************************************************************************)
\* the i-th query succeeded and returned no series
NoData(i) == ~prom_responses[i].raises /\ prom_responses[i].data = <<>>

\* i is the last SLO of the list that carries its name
LastOfName(i) ==
    \A j \in (i + 1)..Len(slo_list) : slo_list[j].name # slo_list[i].name

\* C1: the map returned by evaluate_slos has no key for a name whose queries
\* all succeeded with an empty result, and a key for every other name.
C1_NoDataOmitted ==
    eval_out # None =>
        \A i \in 1..Len(slo_list) :
            IF \A j \in 1..Len(slo_list) :
                   slo_list[j].name = slo_list[i].name => NoData(j)
            THEN slo_list[i].name \notin DOMAIN eval_out.results
            ELSE slo_list[i].name \in DOMAIN eval_out.results

\* C4: a failing query is recorded as False and does not end the batch: every
\* SLO of the list is queried, in order, every name gets a verdict, and the
\* verdict kept for a name is the one of the last SLO carrying it (False if
\* its query raised, slo_passed of the result otherwise).
C4_FailureDoesNotAbort ==
    eval_out # None =>
        /\ Len(eval_out.queried) = Len(slo_list)
        /\ \A j \in 1..Len(slo_list) :
              /\ eval_out.queried[j] = slo_list[j].expr
              /\ slo_list[j].name \in DOMAIN eval_out.results
              /\ LastOfName(j) =>
                    eval_out.results[slo_list[j].name] =
                        IF prom_responses[j].raises THEN FALSE
                        ELSE slo_passed(prom_responses[j].data)

\* C4 witness: the first query of two raises; the first SLO is recorded False
\* and the second, queried after it, passes.
C4_Witness ==
    /\ eval_out # None
    /\ Len(slo_list) = 2
    /\ slo_list[1].name = "a" /\ slo_list[2].name = "b"
    /\ prom_responses[1].raises /\ prom_responses[2] = Returns(RangePass)
    /\ eval_out.queried = <<slo_list[1].expr, slo_list[2].expr>>
    /\ eval_out.results["a"] = FALSE /\ eval_out.results["b"] = TRUE

(***************************************************************************)
(* The definitions sources: YAML texts and what yaml.safe_load makes of    *)
(* them                                                                    *)
(***************************************************************************)
\* parsed YAML values: null, a scalar, a list, a mapping
YNull == [kind |-> "null"]
YStr == [kind |-> "str"]
YList(items) == [kind |-> "list", items |-> items]
YDict(map) == [kind |-> "dict", map |-> map]

\* a text: the document it parses to, or one the parser rejects; the empty
\* string parses to null
Text(doc) == [yaml_error |-> FALSE, empty |-> FALSE, doc |-> doc]
EmptyText == [yaml_error |-> FALSE, empty |-> TRUE, doc |-> YNull]
BadText == [yaml_error |-> TRUE, empty |-> FALSE, doc |-> YNull]

\* yaml.safe_load(text)
safe_load(text) ==
    IF text.yaml_error THEN [raised |-> "YAMLError", value |-> YNull]
    ELSE [raised |-> "", value |-> text.doc]

\* if env_yaml: (None and "" are false)
Truthy(text) == text # None /\ ~text.empty

\* d.get(key, default)
DictGet(d, key, default) == IF key \in DOMAIN d THEN d[key] ELSE default

(***************************************************************************)
(* Resiliency._normalise_alerts                                            *)
(***************************************************************************)
\* isinstance(alert, dict): the entries that are no mapping carry a scalar
IsDict(alert) == "scalar" \notin DOMAIN alert

\* str(alert["severity"]).lower()
Lower(severity) ==
    CASE severity = "Critical" -> "critical"
      [] severity = "WARNING"  -> "warning"
      [] OTHER                 -> severity

\* alert.get("description") or f"slo_{idx}"
NameOf(alert, idx) ==
    IF "description" \in DOMAIN alert /\ alert.description # ""
    THEN alert.description
    ELSE "slo_" \o ToString(idx)

\* for idx, alert in enumerate(raw_alerts), from list position i (idx = i - 1)
RECURSIVE normalise_loop(_, _, _)
normalise_loop(raw, i, acc) ==
    IF i > Len(raw) THEN acc
    ELSE LET alert == raw[i] IN
         IF ~(IsDict(alert) /\ "expr" \in DOMAIN alert /\ "severity" \in DOMAIN alert)
         THEN normalise_loop(raw, i + 1, acc)
         ELSE normalise_loop(raw, i + 1,
                  Append(acc, [name |-> NameOf(alert, i - 1),
                               expr |-> alert.expr,
                               severity |-> Lower(alert.severity)]))

_normalise_alerts(raw_alerts) ==
    IF raw_alerts.kind # "list"
    THEN [raised |-> "ValueError", slos |-> <<>>]
    ELSE [raised |-> "", slos |-> normalise_loop(raw_alerts.items, 1, <<>>)]

(***************************************************************************)
(* Resiliency.__init__: which source is read and how it is unwrapped       *)
(***************************************************************************)
\* the environment branch: a mapping is replaced by its "slos" list, else its
\* "alerts" list, else []
EnvUnwrap(raw) ==
    IF raw.kind = "dict"
    THEN DictGet(raw.map, "slos", DictGet(raw.map, "alerts", YList(<<>>)))
    ELSE raw

\* Resiliency(alerts_yaml_path) under the environment value env and the file
\* file: the exception raised ("" for none), the source read, self._slos
Resiliency_init(env, file) ==
    IF Truthy(env)
    THEN LET y == safe_load(env) IN
         IF y.raised # ""
         THEN [raised |-> "ValueError", source |-> "env", slos |-> <<>>]
         ELSE LET n == _normalise_alerts(EnvUnwrap(y.value))
              IN  [raised |-> n.raised, source |-> "env", slos |-> n.slos]
    ELSE IF file = None
         THEN [raised |-> "FileNotFoundError", source |-> "file", slos |-> <<>>]
         ELSE LET y == safe_load(file) IN
              IF y.raised # ""
              THEN [raised |-> "YAMLError", source |-> "file", slos |-> <<>>]
              ELSE LET n == _normalise_alerts(y.value)
                   IN  [raised |-> n.raised, source |-> "file", slos |-> n.slos]

(***************************************************************************)
(* SpecLoad: Resiliency.__init__ applied to every pair of sources within   *)
(* the bounds                                                              *)
(***************************************************************************)
\* entries of a definitions list: valid ones with and without description,
\* ones missing expr or severity, one that is no mapping
AlertEntries ==
    { [expr |-> "e1", severity |-> "Critical"],
      [expr |-> "e1", severity |-> "warning", description |-> "d1"],
      [expr |-> "e2", severity |-> "critical", description |-> "slo_1"],
      [expr |-> "e2", severity |-> "WARNING", description |-> ""],
      [severity |-> "critical", description |-> "d1"],
      [expr |-> "e1"],
      [scalar |-> "junk"] }

AlertLists == UNION { [1..n -> AlertEntries] : n \in 0..MaxAlerts }

\* documents: a bare list, the list under "slos" or under "alerts", and
\* documents of other shapes
Docs ==
    { YList(l) : l \in AlertLists }
    \cup { YDict([slos |-> YList(l)]) : l \in AlertLists }
    \cup { YDict([alerts |-> YList(l)]) : l \in AlertLists }
    \cup { YDict([slos |-> YList(l), alerts |-> YList(<<>>), prometheus_url |-> YStr])
            : l \in AlertLists }
    \cup { YNull, YStr, YDict([prometheus_url |-> YStr]), YDict([slos |-> YNull]) }

Texts == { EmptyText, BadText } \cup { Text(d) : d \in Docs }

InitLoad ==
    /\ \/ /\ env_yaml \in { None, EmptyText }
          /\ alerts_file \in { None } \cup Texts
       \/ /\ env_yaml \in Texts \ { EmptyText }
          /\ alerts_file \in { None, Text(YList(<<[expr |-> "e9", severity |-> "info"]>>)), env_yaml }
    /\ loaded = None
    /\ VerdictIdle /\ EvalIdle /\ ObjIdle /\ ComputeIdle

Construct ==
    /\ loaded = None
    /\ loaded' = Resiliency_init(env_yaml, alerts_file)
    /\ UNCHANGED <<env_yaml, alerts_file, VerdictVars, EvalVars, ObjVars, ComputeVars>>

NextLoad == Construct

SpecLoad == InitLoad /\ [][NextLoad]_vars

(***************************************************************************)
(* Properties of the loader (SpecLoad)                                     *)
(***************************************************************************)
\* C9: the SLO definitions of an accepted definitions list carry pairwise
\* distinct names.
C9_NamesDistinct ==
    (loaded # None /\ loaded.raised = "") =>
        \A i, j \in 1..Len(loaded.slos) :
            i # j => loaded.slos[i].name # loaded.slos[j].name

\* C10: the inline content, when given, decides the outcome whatever the file
\* holds; and a content read from the file loads exactly what the same
\* content loads when given inline (bare list or wrapped list alike).
C10_SourcesEquivalent ==
    loaded # None =>
        /\ Truthy(env_yaml) => loaded = Resiliency_init(env_yaml, None)
        /\ (~Truthy(env_yaml) /\ Truthy(alerts_file)) =>
              LET inline == Resiliency_init(alerts_file, None)
              IN  /\ (loaded.raised = "") = (inline.raised = "")
                  /\ loaded.slos = inline.slos

(***************************************************************************)
(* krkn.resiliency.score.calculate_resiliency_score                        *)
(***************************************************************************)
\* the built-in weight of each severity
DefaultWeights == [critical |-> 2, warning |-> 1]

\* the weight of a severity: the override table's where it names the
\* severity, else the built-in one
SeverityWeight(severity, weights) ==
    IF weights # None /\ severity \in DOMAIN weights.table THEN weights.table[severity]
    ELSE IF severity \in DOMAIN DefaultWeights THEN DefaultWeights[severity]
    ELSE DefaultWeights.warning

\* the sum of f over the set S
RECURSIVE SumSet(_, _)
SumSet(f, S) ==
    IF S = {} THEN 0
    ELSE LET x == CHOOSE y \in S : TRUE IN f[x] + SumSet(f, S \ {x})

\* score and breakdown of the scored checks: the SLO verdicts and the health
\* check verdicts (a health check weighs as a critical SLO)
calculate_resiliency_score(slo_definitions, prometheus_results, health_check_results, weights) ==
    LET names  == DOMAIN prometheus_results \cap DOMAIN slo_definitions
        checks == DOMAIN health_check_results
        w      == [n \in names |-> SeverityWeight(slo_definitions[n], weights)]
        hw     == [c \in checks |-> SeverityWeight("critical", weights)]
        okN    == { n \in names : prometheus_results[n] }
        okC    == { c \in checks : health_check_results[c] }
        total  == SumSet(w, names) + SumSet(hw, checks)
        good   == SumSet(w, okN) + SumSet(hw, okC)
        passed == Cardinality(okN) + Cardinality(okC)
        failed == Cardinality(names \ okN) + Cardinality(checks \ okC)
    IN  [score |-> IF total = 0 THEN 100 ELSE (100 * good) \div total,
         breakdown |-> [passed |-> passed, failed |-> failed]]

(***************************************************************************)
(* The Resiliency object: add_scenario_report, finalize_report and the     *)
(* read accessors                                                          *)
(***************************************************************************)
\* the attributes __init__ sets on every object it constructs
InitAttrs ==
    { "_slos", "_results", "_score", "_breakdown", "_health_check_results",
      "scenario_reports", "summary", "detailed_report" }

\* hasattr(self, name)
HasAttr(name) == name \in InitAttrs

\* {slo["name"]: slo["severity"] for slo in self._slos}: a later definition
\* of a name replaces an earlier one
slo_defs(slos) ==
    [n \in { slos[i].name : i \in 1..Len(slos) } |->
        slos[CHOOSE i \in 1..Len(slos) :
                /\ slos[i].name = n
                /\ \A j \in (i + 1)..Len(slos) : slos[j].name # n].severity]

\* datetime.isoformat()
isoformat(t) == "2024-01-01T00:0" \o ToString(t) \o ":00"

\* the scenario report add_scenario_report appends
scenario_report(slos, scenario_name, window, weight, health_check_results, weights, responses) ==
    LET slo_results == evaluate_slos(slos, responses).results
        hc == IF health_check_results = None THEN EmptyMap ELSE health_check_results.map
        sc == calculate_resiliency_score(slo_defs(slos), slo_results, hc, weights)
    IN  [name |-> scenario_name,
         window |-> [start |-> isoformat(window.start), end |-> isoformat(window.end)],
         score |-> sc.score,
         weight |-> weight,
         breakdown |-> sc.breakdown,
         slo_results |-> slo_results,
         health_check_results |-> hc]

\* sum(rep["weight"] for rep in reports)
RECURSIVE total_weight(_)
total_weight(reports) ==
    IF reports = <<>> THEN 0 ELSE Head(reports).weight + total_weight(Tail(reports))

\* sum(rep["score"] * rep["weight"] for rep in reports)
RECURSIVE weighted_sum(_)
weighted_sum(reports) ==
    IF reports = <<>> THEN 0
    ELSE Head(reports).score * Head(reports).weight + weighted_sum(Tail(reports))

\* int(a / b) for b # 0: the quotient truncated towards zero
TruncDiv(a, b) ==
    LET abs(x) == IF x < 0 THEN -x ELSE x
        q == abs(a) \div abs(b)
    IN  IF (a < 0) = (b < 0) THEN q ELSE -q

\* the plain mean of the scores, the weights ignored
RECURSIVE score_sum(_)
score_sum(reports) ==
    IF reports = <<>> THEN 0 ELSE Head(reports).score + score_sum(Tail(reports))

resiliency_score_unweighted(reports) == TruncDiv(score_sum(reports), Len(reports))

\* int(sum(score * weight) / total_weight)
resiliency_score(reports) == TruncDiv(weighted_sum(reports), total_weight(reports))

\* {rep["name"]: rep["score"] for rep in self.scenario_reports}: a later
\* report of a name replaces an earlier one
scenario_scores(reports) ==
    [n \in { reports[i].name : i \in 1..Len(reports) } |->
        reports[CHOOSE i \in 1..Len(reports) :
                   /\ reports[i].name = n
                   /\ \A j \in (i + 1)..Len(reports) : reports[j].name # n].score]

\* the summary and the detailed report finalize_report builds once the
\* weighted mean is computed
finalize_build(self, window, weights, responses) ==
    LET full == evaluate_slos(self.slos, responses)
        sc   == calculate_resiliency_score(slo_defs(self.slos), full.results, EmptyMap, weights)
    IN  [raised |-> "", queried |-> Len(full.queried),
         summary |->
            [scenarios |-> scenario_scores(self.scenario_reports),
             resiliency_score |-> resiliency_score(self.scenario_reports),
             system_stability_score |-> sc.score,
             passed_slos |-> sc.breakdown.passed,
             total_slos |-> sc.breakdown.passed + sc.breakdown.failed],
         detailed_report |->
            [scenarios |-> self.scenario_reports,
             system_stability |->
                [window |-> [start |-> isoformat(window.start), end |-> isoformat(window.end)],
                 score |-> sc.score,
                 breakdown |-> sc.breakdown,
                 slo_results |-> full.results]]]

\* an exception leaves the object as it is
finalize_raise(self, exc, queried) ==
    [raised |-> exc, queried |-> queried,
     summary |-> self.summary, detailed_report |-> self.detailed_report]

\* finalize_report with the SLOs evaluated before the empty list is refused
finalize_report_late_check(self, window, weights, responses) ==
    IF self.scenario_reports = <<>>
    THEN finalize_raise(self, "RuntimeError", Len(evaluate_slos(self.slos, responses).queried))
    ELSE IF total_weight(self.scenario_reports) = 0
    THEN finalize_raise(self, "ZeroDivisionError", 0)
    ELSE finalize_build(self, window, weights, responses)

\* finalize_report adding the passed count to the one of the summary it replaces
finalize_report_accumulate(self, window, weights, responses) ==
    IF self.scenario_reports = <<>>
    THEN finalize_raise(self, "RuntimeError", 0)
    ELSE IF total_weight(self.scenario_reports) = 0
    THEN finalize_raise(self, "ZeroDivisionError", 0)
    ELSE LET out == finalize_build(self, window, weights, responses) IN
         IF self.summary = None THEN out
         ELSE [out EXCEPT !.summary.passed_slos = @ + self.summary.passed_slos]

\* finalize_report: what it raises ("" for nothing), the queries it issues,
\* self.summary and self.detailed_report when it ends
finalize_report(self, window, weights, responses) ==
    IF self.scenario_reports = <<>>
    THEN finalize_raise(self, "RuntimeError", 0)
    ELSE IF total_weight(self.scenario_reports) = 0
    THEN finalize_raise(self, "ZeroDivisionError", 0)
    ELSE finalize_build(self, window, weights, responses)

\* get_summary: raises when the attribute is missing, else returns it
get_summary(self) ==
    IF ~HasAttr("summary") THEN [raised |-> "RuntimeError", returned |-> None]
    ELSE [raised |-> "", returned |-> self.summary]

\* get_detailed_report: raises when the attribute is missing, else returns it
get_detailed_report(self) ==
    IF ~HasAttr("detailed_report") THEN [raised |-> "RuntimeError", returned |-> None]
    ELSE [raised |-> "", returned |-> self.detailed_report]

\* compact_breakdown: the three numbers kept of one scenario report; the
\* except branch serves a report without breakdown, passed, failed or score
compact_breakdown(report) ==
    LET complete == /\ "breakdown" \in DOMAIN report
                    /\ "passed" \in DOMAIN report.breakdown
                    /\ "failed" \in DOMAIN report.breakdown
                    /\ "score" \in DOMAIN report
        breakdown == DictGet(report, "breakdown", EmptyMap)
        passed == IF complete THEN report.breakdown.passed ELSE DictGet(breakdown, "passed", 0)
        failed == IF complete THEN report.breakdown.failed ELSE DictGet(breakdown, "failed", 0)
        score_val == IF complete THEN report.score ELSE DictGet(report, "score", 0)
    IN  [resiliency_score |-> score_val,
         passed_slos |-> passed,
         total_slos |-> passed + failed]

\* {rep["name"]: compact_breakdown(rep) for rep in reports}: a later report
\* replaces an earlier one of the same name
RECURSIVE score_map(_)
score_map(reports) ==
    IF reports = <<>> THEN EmptyMap
    ELSE LET n == Len(reports)
         IN  Put(score_map(SubSeq(reports, 1, n - 1)), reports[n].name,
                 compact_breakdown(reports[n]))

\* item.get("scenario") / getattr(item, "scenario", None) is in score_map
name_in_score_map(item, map) ==
    "scenario" \in DOMAIN item /\ item.scenario \in DOMAIN map

\* the dict appended for one telemetry entry: a dict entry is kept, any other
\* entry is replaced by the dict of its fields; a matched one gets
\* resiliency_report
telemetry_item(item, map) ==
    LET item_dict == IF item.kind = "dict" THEN item ELSE [item EXCEPT !.kind = "dict"]
    IN  IF name_in_score_map(item, map)
        THEN Put(item_dict, "resiliency_report", map[item.scenario])
        ELSE item_dict

\* getattr(chaos_telemetry, "scenarios", [])
telemetry_scenarios(telemetry) ==
    IF "scenarios" \in DOMAIN telemetry THEN telemetry.scenarios ELSE <<>>

\* attach_compact_to_telemetry appending only inside the match test
attach_compact_to_telemetry_matched_only(self, telemetry) ==
    LET map == score_map(self.scenario_reports)
        items == telemetry_scenarios(telemetry)
        kept == SelectSeq(items, LAMBDA item : name_in_score_map(item, map))
    IN  Put(telemetry, "scenarios", [i \in 1..Len(kept) |-> telemetry_item(kept[i], map)])

\* attach_compact_to_telemetry: the telemetry object after the call
attach_compact_to_telemetry(self, telemetry) ==
    LET map == score_map(self.scenario_reports)
        items == telemetry_scenarios(telemetry)
    IN  Put(telemetry, "scenarios", [i \in 1..Len(items) |-> telemetry_item(items[i], map)])

(***************************************************************************)
(* Spec: one Resiliency object and the calls made on it                    *)
(***************************************************************************)
\* the object as the methods see it
Self ==
    [slos |-> _slos, scenario_reports |-> scenario_reports,
     summary |-> summary, detailed_report |-> detailed_report]

\* the sources the object is constructed from: a bare list in the file, a
\* wrapped list given inline
ObjSources ==
    { [env |-> None,
       file |-> Text(YList(<< [expr |-> "e1", severity |-> "Critical"] >>))],
      [env |-> Text(YDict([slos |-> YList(<< [expr |-> "e2", severity |-> "warning",
                                              description |-> "d1"] >>)])),
       file |-> None] }

\* the arguments of the calls
ScenarioNames == { "s1", "s2" }
Weights == { 0, 1, 2 }
Windows == { [start |-> 0, end |-> 1] }
WeightOverrides == { None, [table |-> [critical |-> 1, warning |-> 3]] }

\* what the backend answers to one query of a call on the object: an error,
\* a result that passes, a result that fails
ObjResponses == { Raises, Returns(RangePass), Returns(RangeFail) }

\* a compact report left on a telemetry entry by an earlier run
OldCompact == [resiliency_score |-> 7, passed_slos |-> 0, total_slos |-> 0]

\* the telemetry objects handed to attach_compact_to_telemetry: one without
\* a scenarios attribute, and two whose entries are dicts and objects, with
\* and without a scenario name, with and without an earlier resiliency_report
ScenarioTelemetries ==
    { [run_uuid |-> "r1"],
      [run_uuid |-> "r2",
       scenarios |-> << [kind |-> "dict", scenario |-> "s1", exit_status |-> 0],
                        [kind |-> "obj", scenario |-> "s3", exit_status |-> 1],
                        [kind |-> "dict", exit_status |-> 0] >>],
      [run_uuid |-> "r3",
       scenarios |-> << [kind |-> "obj", scenario |-> "s2", exit_status |-> 0],
                        [kind |-> "dict", scenario |-> "s3", exit_status |-> 0,
                         resiliency_report |-> OldCompact],
                        [kind |-> "dict", scenario |-> "s1", exit_status |-> 1,
                         resiliency_report |-> OldCompact] >>] }

\* the record of a call: the method, the exception it raised ("" for none),
\* the number of backend queries it issued, the value it returned, and for
\* finalize_report its arguments, the backend's answers and whether it
\* repeats the call before it
Call(op, raised, queried, returned, args, responses, repeat) ==
    [op |-> op, raised |-> raised, queried |-> queried, returned |-> returned,
     args |-> args, responses |-> responses, repeat |-> repeat]

Init ==
    /\ \E src \in ObjSources :
          LET made == Resiliency_init(src.env, src.file)
          IN  made.raised = "" /\ _slos = made.slos
    /\ scenario_reports = <<>>
    /\ summary = None
    /\ detailed_report = None
    /\ last = Call("__init__", "", 0, None, None, <<>>, FALSE)
    /\ VerdictIdle /\ EvalIdle /\ LoadIdle /\ ComputeIdle

\* add_scenario_report: appends the report and returns its score;
\* detailed_report["scenarios"] is the list self.scenario_reports itself, so
\* the append shows in it
AddScenarioReport ==
    /\ Len(scenario_reports) < MaxScenarios
    /\ \E scenario_name \in ScenarioNames, weight \in Weights, window \in Windows,
          responses \in [1..Len(_slos) -> ObjResponses] :
          /\ scenario_reports' =
                Append(scenario_reports,
                       scenario_report(_slos, scenario_name, window, weight, None, None, responses))
          /\ detailed_report' =
                IF detailed_report = None THEN None
                ELSE [detailed_report EXCEPT !.scenarios = scenario_reports']
          /\ last' = Call("add_scenario_report", "", Len(_slos),
                          scenario_reports'[Len(scenario_reports')].score, None, <<>>, FALSE)
    /\ UNCHANGED <<_slos, summary, VerdictVars, EvalVars, LoadVars, ComputeVars>>

FinalizeReport ==
    /\ \E window \in Windows, weights \in WeightOverrides,
          responses \in [1..Len(_slos) -> ObjResponses] :
          LET out  == finalize_report(Self, window, weights, responses)
              args == [window |-> window, weights |-> weights]
              seen == IF out.raised = "" THEN responses ELSE <<>>
          IN  /\ summary' = out.summary
              /\ detailed_report' = out.detailed_report
              /\ last' = Call("finalize_report", out.raised, out.queried, None, args, seen,
                              /\ last.op = "finalize_report"
                              /\ last.raised = ""
                              /\ last.args = args
                              /\ last.responses = responses)
    /\ UNCHANGED <<_slos, scenario_reports, VerdictVars, EvalVars, LoadVars, ComputeVars>>

GetSummary ==
    /\ LET out == get_summary(Self)
       IN  last' = Call("get_summary", out.raised, 0, out.returned, None, <<>>, FALSE)
    /\ UNCHANGED <<_slos, scenario_reports, summary, detailed_report,
                   VerdictVars, EvalVars, LoadVars, ComputeVars>>

GetDetailedReport ==
    /\ LET out == get_detailed_report(Self)
       IN  last' = Call("get_detailed_report", out.raised, 0, out.returned, None, <<>>, FALSE)
    /\ UNCHANGED <<_slos, scenario_reports, summary, detailed_report,
                   VerdictVars, EvalVars, LoadVars, ComputeVars>>

\* attach_compact_to_telemetry: the call records the telemetry object as it
\* was handed in (args) and as the call leaves it (returned)
AttachCompactToTelemetry ==
    /\ \E telemetry \in ScenarioTelemetries :
          last' = Call("attach_compact_to_telemetry", "", 0,
                       attach_compact_to_telemetry(Self, telemetry), telemetry, <<>>, FALSE)
    /\ UNCHANGED <<_slos, scenario_reports, summary, detailed_report,
                   VerdictVars, EvalVars, LoadVars, ComputeVars>>

Next ==
    \/ AddScenarioReport
    \/ FinalizeReport
    \/ GetSummary
    \/ GetDetailedReport
    \/ AttachCompactToTelemetry

Spec == Init /\ [][Next]_vars

(***************************************************************************)
(* Properties of the Resiliency object (Spec)                              *)
(***************************************************************************)
\* C2: while finalize_report has not completed (no summary, no detailed
\* report), get_summary and get_detailed_report raise.
C2_AccessorsRaiseBeforeFinalize ==
    /\ (last.op = "get_summary" /\ summary = None) => last.raised # ""
    /\ (last.op = "get_detailed_report" /\ detailed_report = None) => last.raised # ""

\* C3: finalize_report called while no scenario report has been added raises
\* RuntimeError, issues no backend query and leaves summary, detailed_report
\* and the (empty) list of reports as they were.
C3_FinalizeEmptyRaises ==
    [][(scenario_reports = <<>> /\ last'.op = "finalize_report") =>
          /\ last'.raised = "RuntimeError"
          /\ last'.queried = 0
          /\ summary' = summary
          /\ detailed_report' = detailed_report
          /\ scenario_reports' = scenario_reports]_vars

\* C3 witness: a finalize_report on an object without reports has raised, no
\* query was issued and there is no summary.
C3_Witness ==
    /\ last.op = "finalize_report"
    /\ scenario_reports = <<>>
    /\ last.raised = "RuntimeError"
    /\ last.queried = 0
    /\ summary = None /\ detailed_report = None

\* C6: a finalize_report that directly follows a successful finalize_report,
\* with the same arguments and the same backend answers, succeeds and leaves
\* summary, detailed_report and the list of scenario reports unchanged.
C6_FinalizeIdempotent ==
    [][(last'.op = "finalize_report" /\ last'.repeat) =>
          /\ last'.raised = ""
          /\ summary' = summary
          /\ detailed_report' = detailed_report
          /\ scenario_reports' = scenario_reports]_vars

\* C6 witness: finalize_report has run twice in a row on two scenario reports
\* with a passing full-run evaluation.
C6_Witness ==
    /\ last.op = "finalize_report" /\ last.repeat /\ last.raised = ""
    /\ Len(scenario_reports) = 2
    /\ summary # None /\ summary.passed_slos = 1
    /\ detailed_report.scenarios = scenario_reports

\* the sum of a sequence of integers
RECURSIVE SeqSum(_)
SeqSum(seq) == IF seq = <<>> THEN 0 ELSE seq[1] + SeqSum(Tail(seq))

\* C7: after a successful finalize_report, summary.resiliency_score is the
\* integer part of sum(score_i * weight_i) / sum(weight_i) over the appended
\* reports, and lies in 0..100 when every score is in 0..100 and every
\* weight is positive.
C7_WeightedMean ==
    (last.op = "finalize_report" /\ last.raised = "") =>
        LET n == Len(scenario_reports)
            W == SeqSum([i \in 1..n |-> scenario_reports[i].weight])
            S == SeqSum([i \in 1..n |-> scenario_reports[i].score * scenario_reports[i].weight])
            r == summary.resiliency_score
        IN  /\ W # 0
            /\ (W > 0 /\ S >= 0) => (r * W <= S /\ S < (r + 1) * W)
            /\ (\A i \in 1..n : /\ scenario_reports[i].weight > 0
                                 /\ scenario_reports[i].score \in 0..100)
                  => r \in 0..100

\* C7 witness: scores 100 and 0 with weights 1 and 2 give 33.
C7_Witness ==
    /\ last.op = "finalize_report" /\ last.raised = ""
    /\ Len(scenario_reports) = 2
    /\ scenario_reports[1].score = 100 /\ scenario_reports[1].weight = 1
    /\ scenario_reports[2].score = 0 /\ scenario_reports[2].weight = 2
    /\ summary.resiliency_score = 33

\* the telemetry entry before[i] names a scenario some appended report has
Matched(entry) ==
    /\ "scenario" \in DOMAIN entry
    /\ \E j \in 1..Len(scenario_reports) : scenario_reports[j].name = entry.scenario

\* rr is the compact form of the last appended report named name
CompactOfLast(rr, name) ==
    \E j \in 1..Len(scenario_reports) :
        /\ scenario_reports[j].name = name
        /\ \A k \in (j + 1)..Len(scenario_reports) : scenario_reports[k].name # name
        /\ rr = [resiliency_score |-> scenario_reports[j].score,
                 passed_slos |-> scenario_reports[j].breakdown.passed,
                 total_slos |-> scenario_reports[j].breakdown.passed
                                + scenario_reports[j].breakdown.failed]

\* what every attach_compact_to_telemetry call does whatever the entry is:
\* the entries keep their number and order, each keeps its own fields, a
\* matched one carries the compact report of the last report of its name,
\* an unmatched one gains no report; the object's reports, summary and
\* detailed report stay as they were
AttachKeeps(before, after) ==
    /\ Len(after) = Len(before)
    /\ \A i \in 1..Len(before) :
          /\ DOMAIN after[i] \ {"resiliency_report"} = DOMAIN before[i] \ {"resiliency_report"}
          /\ \A k \in DOMAIN before[i] \ {"kind", "resiliency_report"} :
                after[i][k] = before[i][k]
          /\ Matched(before[i]) =>
                /\ "resiliency_report" \in DOMAIN after[i]
                /\ CompactOfLast(after[i].resiliency_report, before[i].scenario)
          /\ ~Matched(before[i]) =>
                /\ "resiliency_report" \in DOMAIN after[i]
                      <=> "resiliency_report" \in DOMAIN before[i]
                /\ "resiliency_report" \in DOMAIN before[i]
                      => after[i].resiliency_report = before[i].resiliency_report

\* C11 as stated: attach_compact_to_telemetry keeps the number and order of
\* the telemetry's scenario entries, adds a compact report only to entries
\* whose scenario name matches an appended report, passes every unmatched
\* entry through unchanged, and changes neither the scenario reports nor the
\* summary or detailed report.
C11_UnmatchedUnchanged ==
    [][last'.op = "attach_compact_to_telemetry" =>
          LET before == telemetry_scenarios(last'.args)
              after  == last'.returned.scenarios
          IN  /\ AttachKeeps(before, after)
              /\ \A i \in 1..Len(before) : ~Matched(before[i]) => after[i] = before[i]
              /\ scenario_reports' = scenario_reports
              /\ summary' = summary
              /\ detailed_report' = detailed_report]_vars

\* C11 amended: attach_compact_to_telemetry keeps the number and order of the
\* telemetry's scenario entries and adds a compact report only to entries
\* whose scenario name matches an appended report; every entry comes out as a
\* dict: an unmatched dict entry is passed through unchanged, an unmatched
\* entry that is not a dict is replaced by the dict of its fields. The call
\* changes neither the scenario reports nor the summary or detailed report.
C11_EntriesKeptAsDicts ==
    [][last'.op = "attach_compact_to_telemetry" =>
          LET before == telemetry_scenarios(last'.args)
              after  == last'.returned.scenarios
          IN  /\ last'.raised = ""
              /\ AttachKeeps(before, after)
              /\ \A i \in 1..Len(before) :
                    /\ after[i].kind = "dict"
                    /\ (~Matched(before[i]) /\ before[i].kind = "dict")
                          => after[i] = before[i]
                    /\ (~Matched(before[i]) /\ before[i].kind # "dict")
                          => after[i] = [before[i] EXCEPT !.kind = "dict"]
              /\ scenario_reports' = scenario_reports
              /\ summary' = summary
              /\ detailed_report' = detailed_report]_vars

\* C11 witness: the call has run on a finalized object with a report named
\* s1 and none named s3, on a telemetry with a matched dict entry, an
\* unmatched object entry and an entry without a name; the matched entry
\* carries the report, the other two carry none.
C11_Witness ==
    /\ last.op = "attach_compact_to_telemetry"
    /\ summary # None
    /\ \E j \in 1..Len(scenario_reports) : scenario_reports[j].name = "s1"
    /\ Len(telemetry_scenarios(last.args)) = 3
    /\ last.args.scenarios[1].kind = "dict" /\ last.args.scenarios[1].scenario = "s1"
    /\ last.args.scenarios[2].kind = "obj" /\ last.args.scenarios[2].scenario = "s3"
    /\ "scenario" \notin DOMAIN last.args.scenarios[3]
    /\ Len(last.returned.scenarios) = 3
    /\ "resiliency_report" \in DOMAIN last.returned.scenarios[1]
    /\ last.returned.scenarios[1].resiliency_report.total_slos = 1
    /\ "resiliency_report" \notin DOMAIN last.returned.scenarios[2]
    /\ "resiliency_report" \notin DOMAIN last.returned.scenarios[3]

\* C12: in every state reached after a successful finalize_report, under any
\* later add_scenario_report and finalize_report calls, the scenario names
\* listed in detailed_report.scenarios are exactly the keys of
\* summary.scenarios, each with the same score.
C12_ReportsAgree ==
    summary # None =>
        LET listed == detailed_report.scenarios
        IN  /\ { listed[i].name : i \in 1..Len(listed) } = DOMAIN summary.scenarios
            /\ \A i \in 1..Len(listed) : summary.scenarios[listed[i].name] = listed[i].score

(***************************************************************************)
(* compute_resiliency                                                      *)
(***************************************************************************)
\* the name compute_resiliency gives the idx-th health check: its url
\* attribute; for a dict without one, hc.get("url", f"hc_{idx}"); str(None)
\* for an object without one
HcName(hc, idx) ==
    IF "url" \in DOMAIN hc THEN hc.url
    ELSE IF hc.kind = "dict" THEN "hc_" \o ToString(idx)
    ELSE "None"

\* bool(status): the status attribute; for a dict without one,
\* hc.get("status", True); None, hence False, for an object without one
HcStatus(hc) ==
    IF "status" \in DOMAIN hc THEN hc.status ELSE hc.kind = "dict"

\* for idx, hc in enumerate(hc_list), from list position i (idx = i - 1)
RECURSIVE health_loop(_, _, _)
health_loop(hc_list, i, acc) ==
    IF i > Len(hc_list) THEN acc
    ELSE health_loop(hc_list, i + 1, Put(acc, HcName(hc_list[i], i - 1), HcStatus(hc_list[i])))

\* health_results from getattr(chaos_telemetry, "health_checks", None)
health_results(telemetry) ==
    IF "health_checks" \notin DOMAIN telemetry THEN EmptyMap
    ELSE health_loop(telemetry.health_checks, 1, EmptyMap)

\* the exceptions of the model that derive from Exception
ExceptionClasses ==
    { "FileNotFoundError", "ValueError", "YAMLError", "RuntimeError",
      "AttributeError", "KeyError", "ZeroDivisionError" }

\* the try block: the exception that leaves it ("" for none) and the report
\* it builds; score_fault is a failure inside calculate_resiliency_score, a
\* frozen telemetry object refuses the assignment of resiliency_report
compute_body(env, file, responses, telemetry, score_fault) ==
    LET made == Resiliency_init(env, file) IN
    IF made.raised # "" THEN [raised |-> made.raised, report |-> None]
    ELSE LET results == evaluate_slos(made.slos, responses).results
             hr == health_results(telemetry)
         IN  IF score_fault THEN [raised |-> "KeyError", report |-> None]
             ELSE LET sc == calculate_resiliency_score(slo_defs(made.slos), results, hr, None)
                  IN  IF telemetry.frozen
                      THEN [raised |-> "AttributeError", report |-> None]
                      ELSE [raised |-> "",
                            report |-> [score |-> sc.score,
                                        breakdown |-> sc.breakdown,
                                        slo_results |-> results,
                                        health_check_results |-> hr]]

\* compute_resiliency with the handler written except ValueError
compute_resiliency_except_value_error(env, file, responses, telemetry, score_fault) ==
    LET body == compute_body(env, file, responses, telemetry, score_fault) IN
    IF body.raised = ""
    THEN [raised |-> "", returned |-> body.report, logged_error |-> FALSE]
    ELSE IF body.raised = "ValueError"
    THEN [raised |-> "", returned |-> None, logged_error |-> TRUE]
    ELSE [raised |-> body.raised, returned |-> None, logged_error |-> FALSE]

\* compute_resiliency: the exception that leaves it ("" for none), the value
\* it returns, whether it logged an error
compute_resiliency(env, file, responses, telemetry, score_fault) ==
    LET body == compute_body(env, file, responses, telemetry, score_fault) IN
    IF body.raised = ""
    THEN [raised |-> "", returned |-> body.report, logged_error |-> FALSE]
    ELSE IF body.raised \in ExceptionClasses
    THEN [raised |-> "", returned |-> None, logged_error |-> TRUE]
    ELSE [raised |-> body.raised, returned |-> None, logged_error |-> FALSE]

\* the telemetry object after compute_resiliency: a call that got past the
\* two assignments leaves resiliency_report, the dict it returns, and
\* resiliency_score on it; a call that failed leaves it as it was
telemetry_after(telemetry, out) ==
    IF out.returned = None THEN telemetry
    ELSE Put(Put(telemetry, "resiliency_report", out.returned),
             "resiliency_score", DictGet(out.returned, "score", None))

(***************************************************************************)
(* SpecCompute: compute_resiliency under every combination of sources,     *)
(* backend answers, telemetry object and scoring failure                   *)
(***************************************************************************)
ComputeSources ==
    { [env |-> None, file |-> None],
      [env |-> None, file |-> BadText],
      [env |-> None, file |-> EmptyText],
      [env |-> None, file |-> Text(YDict([slos |-> YList(<<>>)]))],
      [env |-> None,
       file |-> Text(YList(<< [expr |-> "e1", severity |-> "Critical"],
                              [expr |-> "e2", severity |-> "warning", description |-> "d1"] >>))],
      [env |-> BadText, file |-> Text(YList(<<>>))],
      [env |-> Text(YStr), file |-> None],
      [env |-> Text(YDict([alerts |-> YList(<< [expr |-> "e1", severity |-> "warning"] >>)])),
       file |-> None] }

\* health checks as objects and as dicts, with and without url and status
HealthChecks ==
    { [kind |-> "obj", url |-> "u1", status |-> TRUE],
      [kind |-> "obj", url |-> "u2", status |-> FALSE],
      [kind |-> "obj"],
      [kind |-> "dict", url |-> "u1", status |-> FALSE],
      [kind |-> "dict"] }

\* telemetry objects: without health_checks, with none, with one or two;
\* frozen ones refuse new attributes
Telemetries ==
    { [frozen |-> f] : f \in BOOLEAN }
    \cup { [frozen |-> f, health_checks |-> l] :
             f \in BOOLEAN,
             l \in { <<>> } \cup { <<h>> : h \in HealthChecks }
                   \cup { <<h, [kind |-> "dict"]>> : h \in HealthChecks } }

InitCompute ==
    /\ \E src \in ComputeSources :
          /\ env_yaml = src.env
          /\ alerts_file = src.file
          /\ prom_responses \in [1..Len(Resiliency_init(src.env, src.file).slos) -> ObjResponses]
    /\ chaos_telemetry \in Telemetries
    /\ compute_out = None
    /\ _with_resiliency_patch = FALSE
    /\ loaded = None /\ slo_list = <<>> /\ eval_out = None
    /\ VerdictIdle /\ ObjIdle

\* compute_resiliency: besides returning, a call that succeeds sets the two
\* attributes on the telemetry object and, the first time, replaces
\* ChaosRunTelemetry.to_json and marks the class as patched
ComputeResiliency ==
    /\ compute_out = None
    /\ \E score_fault \in BOOLEAN :
          LET out == compute_resiliency(env_yaml, alerts_file, prom_responses,
                                        chaos_telemetry, score_fault)
          IN  /\ compute_out' = [call |-> out, score_fault |-> score_fault]
              /\ chaos_telemetry' = telemetry_after(chaos_telemetry, out)
              /\ _with_resiliency_patch' = (_with_resiliency_patch \/ out.returned # None)
    /\ UNCHANGED <<VerdictVars, EvalVars, LoadVars, ObjVars>>

NextCompute == ComputeResiliency

SpecCompute == InitCompute /\ [][NextCompute]_vars

(***************************************************************************)
(* Properties of compute_resiliency (SpecCompute)                          *)
(***************************************************************************)
\* the definitions source is missing or malformed
SourceFails == Resiliency_init(env_yaml, alerts_file).raised # ""

\* some backend query of the call raised
QueryFails == \E i \in 1..Len(prom_responses) : prom_responses[i].raises

\* the call got as far as attaching and the telemetry object refused
AttachFails == chaos_telemetry.frozen

\* C8 as stated: compute_resiliency never raises, returns None on every
\* internal failure, a backend query failure included, and returns a report
\* only when no step failed.
C8_NoneOnAnyFailure ==
    compute_out # None =>
        /\ compute_out.call.raised = ""
        /\ (SourceFails \/ QueryFails \/ compute_out.score_fault \/ AttachFails)
              <=> compute_out.call.returned = None

\* C8 amended: compute_resiliency never raises; it logs and returns None
\* exactly when the definitions source is missing or malformed, scoring
\* fails or the telemetry object refuses the report; a backend query failure
\* is no such failure: it is recorded as a False verdict of the report
\* that is returned.
C8_NeverRaises ==
    compute_out # None =>
        /\ compute_out.call.raised = ""
        /\ (SourceFails \/ compute_out.score_fault \/ AttachFails)
              <=> compute_out.call.returned = None
        /\ compute_out.call.logged_error <=> compute_out.call.returned = None
        /\ compute_out.call.returned # None =>
              LET made == Resiliency_init(env_yaml, alerts_file) IN
              \A i \in 1..Len(made.slos) :
                  /\ made.slos[i].name \in DOMAIN compute_out.call.returned.slo_results
                  /\ prom_responses[i].raises =>
                        compute_out.call.returned.slo_results[made.slos[i].name] = FALSE

\* C8 witness: the definitions file is missing and None is returned.
C8_Witness ==
    /\ compute_out # None
    /\ env_yaml = None /\ alerts_file = None
    /\ compute_out.call.raised = ""
    /\ compute_out.call.returned = None
    /\ compute_out.call.logged_error

====
